---- MODULE Spec2Model ----
(***************************************************************************)
(* Session and streaming engine of the chat client (src/index.tsx, with    *)
(* the earlier revision src/unnamed/part_000): the session collection      *)
(* chatHistory, the current session id, the persisted blob, and the        *)
(* coroutines of sendMessage that consume a stream of deltas.              *)
(*                                                                         *)
(* JavaScript runs one handler at a time and an async function runs        *)
(* without interruption between two awaits, so every action below is one   *)
(* handler, or one segment of sendMessage between two awaits.              *)
(***************************************************************************)
EXTENDS Integers, Sequences, FiniteSets, TLC

(* ---------------------------------------------------------------- bounds *)
\* clicks in the sidebar (new chat, history item, move, delete) in one run
MaxOps == 2
\* sendMessage calls made in one run
MaxCalls == 2

\* the greatest length of the texts rendered, the samples apart
MaxTextLen == 3

(* ------------------------------------------------------------- constants *)
\* JavaScript's null, for currentChatId, chatToDeleteId and currentChatInstance
Null == "null"

\* the keys of CHAT_CATEGORIES in declaration order; the four Arabic keys are
\* written in Latin letters (creed, jurisprudence, tradition, biography)
CHAT_CATEGORIES == <<"aqidah", "fiqh", "hadith", "sirah", "uncategorized">>

ChatCategory == {CHAT_CATEGORIES[i] : i \in 1..Len(CHAT_CATEGORIES)}

\* title of a session that has no message yet
PlaceholderTitle == "New chat"

\* userMessage.substring(0, 30) and userMessage.length > 30
TitleLimit == 30

\* texts a user submits: 7 characters and 40 characters
UserTexts == {"hukm...", "0123456789012345678901234567890123456789"}

\* one grounding chunk (a citation) carried by a delta
Citation == [web |-> [uri |-> "https://dorar.net", title |-> "dorar"]]

\* chunks of a stream: without or with candidates[0].groundingMetadata.groundingChunks
ChunkA == [text |-> "a"]
ChunkB == [text |-> "b", groundingChunks |-> <<Citation>>]
ChunkEmpty == [text |-> ""]

\* what a backend may yield on one stream before it closes: nothing, one delta
\* without text, or two deltas of which the last carries citations
Streams == {<<>>, <<ChunkEmpty>>, <<ChunkA, ChunkB>>}

\* the category the "move to" buttons pressed in a run lead to
MoveTargets == {"aqidah"}

(* --------------------------------------------------------------- strings *)
Digits == <<"0", "1", "2", "3", "4", "5", "6", "7", "8", "9">>

IsDigit(ch) == \E d \in 1..10 : Digits[d] = ch

DigitValue(ch) == (CHOOSE d \in 1..10 : Digits[d] = ch) - 1

\* position of the first "_" of s at or after position i, or Len(s) + 1
RECURSIVE IndexOfUnderscore(_, _)
IndexOfUnderscore(s, i) ==
    IF i > Len(s) THEN Len(s) + 1
    ELSE IF SubSeq(s, i, i) = "_" THEN i
    ELSE IndexOfUnderscore(s, i + 1)

\* id.split('_')[1]: the text between the first and the second underscore
SplitSecond(s) ==
    LET a == IndexOfUnderscore(s, 1)
        b == IndexOfUnderscore(s, a + 1)
    IN  SubSeq(s, a + 1, b - 1)

\* parseInt on a text of decimal digits: the value of its leading digits
RECURSIVE ParseIntFrom(_, _, _)
ParseIntFrom(s, i, acc) ==
    IF i > Len(s) \/ ~IsDigit(SubSeq(s, i, i)) THEN acc
    ELSE ParseIntFrom(s, i + 1, acc * 10 + DigitValue(SubSeq(s, i, i)))

ParseInt(s) == ParseIntFrom(s, 1, 0)

\* parseInt(id.split('_')[1]): the ordering key of a session id
IdKey(id) == ParseInt(SplitSecond(id))

\* `chat_${Date.now()}`
NewId(t) == "chat_" \o ToString(t)

\* String.prototype.substring(start, end) for 0 <= start <= end: end is clamped
\* to the length of s
Substring(s, start, end) ==
    SubSeq(s, start + 1, IF end > Len(s) THEN Len(s) ELSE end)

\* title inference with ">=" for ">"
InferTitleMarksAtLimit(userMessage) ==
    Substring(userMessage, 0, TitleLimit)
        \o (IF Len(userMessage) >= TitleLimit THEN "..." ELSE "")

\* userMessage.substring(0, 30) + (userMessage.length > 30 ? '...' : '')
InferTitle(userMessage) ==
    Substring(userMessage, 0, TitleLimit)
        \o (IF Len(userMessage) > TitleLimit THEN "..." ELSE "")

(* ----------------------------------------------------------- collections *)
\* chatHistory.findIndex(s => s.id === id), 1-based; 0 when absent
FindIndex(h, id) ==
    IF \E i \in 1..Len(h) : h[i].id = id
    THEN CHOOSE i \in 1..Len(h) :
            h[i].id = id /\ \A j \in 1..(i - 1) : h[j].id # id
    ELSE 0

\* chatHistory.splice(i, 1)
Splice(h, i) == SubSeq(h, 1, i - 1) \o SubSeq(h, i + 1, Len(h))

\* Array.prototype.sort is stable: s goes behind every element it does not precede
RECURSIVE InsertDesc(_, _)
InsertDesc(sorted, s) ==
    IF sorted = <<>> THEN <<s>>
    ELSE IF IdKey(s.id) - IdKey(sorted[1].id) > 0 THEN <<s>> \o sorted
    ELSE <<sorted[1]>> \o InsertDesc(Tail(sorted), s)

\* h.slice().sort((a, b) => parseInt(b.id.split('_')[1]) - parseInt(a.id.split('_')[1]))
RECURSIVE SortDesc(_)
SortDesc(h) ==
    IF h = <<>> THEN <<>>
    ELSE InsertDesc(SortDesc(SubSeq(h, 1, Len(h) - 1)), h[Len(h)])

(* ----------------------------------------------------------- persistence *)
\* JSON.stringify of one message: sender, content and, when defined, sources
StoredMessage(m) ==
    IF "sources" \in DOMAIN m
    THEN [sender |-> m.sender, content |-> m.content, sources |-> m.sources]
    ELSE [sender |-> m.sender, content |-> m.content]

\* a serialization that leaves the citations of the messages out
StringifyWithoutSources(h) ==
    [i \in 1..Len(h) |->
        [id |-> h[i].id,
         title |-> h[i].title,
         messages |->
            [k \in 1..Len(h[i].messages) |->
                [sender |-> h[i].messages[k].sender,
                 content |-> h[i].messages[k].content]],
         category |-> h[i].category]]

\* JSON.stringify(chatHistory): every session with its four own properties
Stringify(h) ==
    [i \in 1..Len(h) |->
        [id |-> h[i].id,
         title |-> h[i].title,
         messages |-> [k \in 1..Len(h[i].messages) |-> StoredMessage(h[i].messages[k])],
         category |-> h[i].category]]

\* a migration that files every loaded session under 'uncategorized'
MigrateResets(session) ==
    [id |-> session.id,
     title |-> session.title,
     messages |-> session.messages,
     category |-> "uncategorized"]

\* { ...session, category: session.category || 'uncategorized' }
Migrate(session) ==
    [id |-> session.id,
     title |-> session.title,
     messages |-> session.messages,
     category |->
        IF "category" \in DOMAIN session /\ session.category # ""
        THEN session.category
        ELSE "uncategorized"]

\* a collection written by the revision that had no categories
LegacyStored ==
    <<[id |-> "chat_1",
       title |-> "hukm...",
       messages |-> <<[sender |-> "user", content |-> "hukm..."],
                      [sender |-> "ai", content |-> "ab"]>>],
      [id |-> "chat_2",
       title |-> PlaceholderTitle,
       messages |-> <<>>,
       category |-> "fiqh"]>>

\* what localStorage.getItem('chatHistory') may hold at startup:
\* nothing (<<>>), an empty collection, or a stored collection
StoredAtStartup == {<<>>, << <<>> >>, <<LegacyStored>>}

\* the greatest ordering key of a collection
RECURSIVE MaxKey(_)
MaxKey(h) ==
    IF h = <<>> THEN 0
    ELSE LET k == IdKey(h[1].id)
             r == MaxKey(Tail(h))
         IN  IF k > r THEN k ELSE r

\* the last value of the clock before startup: not before any stored id
StartupClock(stored) == IF stored = <<>> THEN 0 ELSE MaxKey(stored[1])

\* Date.now(): the value returned last, or a later one
DateNow(last) == {last, last + 1}

(* ----------------------------------------------------------------- state *)
VARIABLES
    chatHistory,          \* let chatHistory: the session collection
    currentChatId,        \* let currentChatId
    currentChatInstance,  \* let currentChatInstance: <<>> for null, or <<handle>>
    chatToDeleteId,       \* let chatToDeleteId
    localStorage,         \* the item 'chatHistory': <<>> for none, or <<blob>>
    submitDisabled,       \* submitButton.disabled
    chatContainer,        \* the entries of #chat-container, top to bottom
    calls,                \* the sendMessage calls made so far, in call order
    now,                  \* the value Date.now() returned last
    ops,                  \* clicks in the sidebar, direct calls and failed writes so far
    phase,                \* "script" until loadHistory() has run, then "ready"
    request               \* history: the handler called last with an explicit
                          \* argument, that argument, and the
                          \* number of the call; none under Spec

vars ==
    <<chatHistory, currentChatId, currentChatInstance, chatToDeleteId,
      localStorage, submitDisabled, chatContainer, calls, now, ops, phase,
      request>>

\* the variables the handlers read and write, as one value
Heap ==
    [chatHistory |-> chatHistory,
     currentChatId |-> currentChatId,
     currentChatInstance |-> currentChatInstance,
     chatToDeleteId |-> chatToDeleteId,
     localStorage |-> localStorage,
     submitDisabled |-> submitDisabled,
     chatContainer |-> chatContainer,
     calls |-> calls]

\* the handler leaves the heap as st
Becomes(st) ==
    /\ chatHistory' = st.chatHistory
    /\ currentChatId' = st.currentChatId
    /\ currentChatInstance' = st.currentChatInstance
    /\ chatToDeleteId' = st.chatToDeleteId
    /\ localStorage' = st.localStorage
    /\ submitDisabled' = st.submitDisabled
    /\ chatContainer' = st.chatContainer
    /\ calls' = st.calls

InFlight(c) == c.pc \in {"AwaitingFirstDelta", "Streaming"}

(* -------------------------------------------------------------- handlers *)
\* ai.chats.create({ model, config }): a handle that starts with no turns
createNewChatInstance == [model |-> "gemini-2.5-flash", history |-> <<>>]

\* a save that writes the current session only
saveHistoryCurrentOnly(st) ==
    [st EXCEPT !.localStorage =
        <<Stringify(SelectSeq(st.chatHistory,
                              LAMBDA session : session.id = st.currentChatId))>>]

\* localStorage.setItem('chatHistory', JSON.stringify(chatHistory))
saveHistory(st) == [st EXCEPT !.localStorage = <<Stringify(st.chatHistory)>>]

\* loadChat without "if (!session) return"
loadChatUnchecked(st, id) ==
    [st EXCEPT !.currentChatId = id,
               !.currentChatInstance = <<createNewChatInstance>>,
               !.chatContainer = <<>>]

\* the entry appendMessage('loading', 'ai') adds for call k: the placeholder,
\* whose content is the view of the call
placeholder(k) == [placeholder |-> k]

\* the entries other than e
Without(entries, e) == SelectSeq(entries, LAMBDA x : x # e)

\* loadChat: the container is emptied and filled with one entry for each message
\* of the session, made by appendMessage(msg.content, msg.sender, msg.sources)
loadChat(st, id) ==
    LET i == FindIndex(st.chatHistory, id)
    IN  IF i = 0 THEN st
        ELSE [st EXCEPT !.currentChatId = id,
                        !.currentChatInstance = <<createNewChatInstance>>,
                        !.chatContainer = st.chatHistory[i].messages]

\* a new session filed under a topical category
newSessionFiled(t) ==
    [id |-> NewId(t),
     title |-> PlaceholderTitle,
     messages |-> <<>>,
     category |-> "fiqh"]

newSession(t) ==
    [id |-> NewId(t),
     title |-> PlaceholderTitle,
     messages |-> <<>>,
     category |-> "uncategorized"]

createNewChat(st, t) ==
    LET pushed == [st EXCEPT !.chatHistory = Append(@, newSession(t))]
    IN  loadChat(saveHistory(pushed), NewId(t))

\* mostRecentChat as it was before "load the most recent chat instead of the first one"
firstChat(h) == h[1]

\* the session handleDeleteChat promotes: first of the collection sorted newest first
mostRecentChat(h) == SortDesc(h)[1]

hideDeleteModal(st) == [st EXCEPT !.chatToDeleteId = Null]

\* history of the run, not program state: the collection was spliced while the
\* calls in flight were waiting, so their captured index may name another session
Moved(cs) ==
    [k \in 1..Len(cs) |->
        IF InFlight(cs[k]) THEN [cs[k] EXCEPT !.moved = TRUE] ELSE cs[k]]

\* history of the run, not program state: a call that captures index i begins
\* while the calls in flight with the same index are waiting
Rivalled(cs, i) ==
    [k \in 1..Len(cs) |->
        IF InFlight(cs[k]) /\ cs[k].currentSessionIndex = i
        THEN [cs[k] EXCEPT !.rival = TRUE]
        ELSE cs[k]]

\* handleDeleteChat that loads the first remaining chat whichever chat was deleted
handleDeleteChatAlwaysLoads(st, t) ==
    LET chatIndex == FindIndex(st.chatHistory, st.chatToDeleteId)
        spliced ==
            saveHistory([st EXCEPT !.chatHistory = Splice(@, chatIndex),
                                   !.calls = Moved(@)])
    IN  IF chatIndex > 0
        THEN hideDeleteModal(
                IF Len(spliced.chatHistory) > 0
                THEN loadChat(spliced, spliced.chatHistory[1].id)
                ELSE createNewChat(spliced, t))
        ELSE hideDeleteModal(st)

\* handleDeleteChat up to its saveHistory(): the session is spliced out and the
\* collection written, before any other session is made current
spliceAndSave(st) ==
    LET chatIndex == FindIndex(st.chatHistory, st.chatToDeleteId)
    IN  saveHistory([st EXCEPT !.chatHistory = Splice(@, chatIndex),
                               !.calls = Moved(@)])

\* confirmDeleteBtn's handler, entered with chatToDeleteId set
handleDeleteChat(st, t) ==
    LET chatIndex == FindIndex(st.chatHistory, st.chatToDeleteId)
        wasCurrentChat == st.currentChatId = st.chatToDeleteId
        spliced == spliceAndSave(st)
    IN  IF chatIndex > 0
        THEN hideDeleteModal(
                IF wasCurrentChat
                THEN IF Len(spliced.chatHistory) > 0
                     THEN loadChat(spliced, mostRecentChat(spliced.chatHistory).id)
                     ELSE createNewChat(spliced, t)
                ELSE spliced)
        ELSE hideDeleteModal(st)

\* moveChatToCategory without its saveHistory()
moveChatToCategoryUnsaved(st, chatId, newCategory) ==
    LET chatIndex == FindIndex(st.chatHistory, chatId)
    IN  IF chatIndex > 0
        THEN [st EXCEPT !.chatHistory[chatIndex].category = newCategory]
        ELSE st

moveChatToCategory(st, chatId, newCategory) ==
    LET chatIndex == FindIndex(st.chatHistory, chatId)
    IN  IF chatIndex > 0
        THEN saveHistory([st EXCEPT !.chatHistory[chatIndex].category = newCategory])
        ELSE st

\* loadHistory that makes the most recent stored session current
loadHistoryMostRecent(st, t) ==
    IF st.localStorage # <<>>
    THEN LET parsedHistory == st.localStorage[1]
             mapped ==
                [st EXCEPT !.chatHistory =
                    [i \in 1..Len(parsedHistory) |-> Migrate(parsedHistory[i])]]
         IN  IF Len(mapped.chatHistory) > 0
             THEN loadChat(mapped, mostRecentChat(mapped.chatHistory).id)
             ELSE createNewChat(mapped, t)
    ELSE createNewChat(st, t)

\* loadHistory(): the last statement of the script
loadHistory(st, t) ==
    IF st.localStorage # <<>>
    THEN LET parsedHistory == st.localStorage[1]
             mapped ==
                [st EXCEPT !.chatHistory =
                    [i \in 1..Len(parsedHistory) |-> Migrate(parsedHistory[i])]]
         IN  IF Len(mapped.chatHistory) > 0
             THEN loadChat(mapped, mapped.chatHistory[1].id)
             ELSE createNewChat(mapped, t)
    ELSE createNewChat(st, t)

(* ----------------------------------------------------------- sendMessage *)
\* finalResponse?.candidates?.[0]?.groundingMetadata?.groundingChunks:
\* <<>> for undefined, or <<the chunks>>
groundingChunksOf(finalResponse) ==
    IF finalResponse # <<>> /\ "groundingChunks" \in DOMAIN finalResponse[1]
    THEN <<finalResponse[1].groundingChunks>>
    ELSE <<>>

\* { sender: 'ai', content: fullResponseText, sources: groundingChunks }
aiMessage(fullResponseText, groundingChunks) ==
    IF groundingChunks # <<>>
    THEN [sender |-> "ai", content |-> fullResponseText, sources |-> groundingChunks[1]]
    ELSE [sender |-> "ai", content |-> fullResponseText]

userMessageOf(text) == [sender |-> "user", content |-> text]

\* sendMessage that saves before it appends the user's turn
sendMessageSavesFirst(st, userMessage, stream) ==
    LET i == FindIndex(st.chatHistory, st.currentChatId)
    IN  IF st.currentChatId = Null \/ st.currentChatInstance = <<>> \/ i = 0 THEN st
        ELSE
        LET saved == saveHistory(st)
            pushed ==
                [saved EXCEPT !.chatHistory[i].messages =
                    Append(@, userMessageOf(userMessage))]
            titled ==
                IF Len(pushed.chatHistory[i].messages) = 1
                THEN [pushed EXCEPT !.chatHistory[i].title = InferTitle(userMessage)]
                ELSE pushed
            call ==
                [currentSessionIndex |-> i,
                 userMessage |-> userMessage,
                 fullResponseText |-> "",
                 finalResponse |-> <<>>,
                 pc |-> "AwaitingFirstDelta",
                 view |-> "loading",
                 stream |-> stream,
                 sid |-> st.currentChatId,
                 before |-> st.chatHistory[i].messages,
                 deltas |-> <<>>,
                 moved |-> FALSE,
                 rival |->
                    \E k \in 1..Len(st.calls) :
                        /\ InFlight(st.calls[k])
                        /\ st.calls[k].currentSessionIndex = i,
                 outcome |-> "pending"]
        IN  [titled EXCEPT !.submitDisabled = TRUE,
                           !.chatContainer =
                                Append(Append(@, userMessageOf(userMessage)),
                                       placeholder(Len(st.calls) + 1)),
                           !.calls = Append(Rivalled(@, i), call)]

\* sendMessage up to its first await: the user's turn, the title, the save, the
\* placeholder, and the call of sendMessageStream, which the backend will answer
\* with stream
sendMessage(st, userMessage, stream) ==
    LET currentSessionIndex == FindIndex(st.chatHistory, st.currentChatId)
    IN  IF st.currentChatId = Null \/ st.currentChatInstance = <<>> THEN st
        ELSE IF currentSessionIndex = 0 THEN st
        ELSE
        LET before == st.chatHistory[currentSessionIndex].messages
            pushed ==
                [st EXCEPT !.chatHistory[currentSessionIndex].messages =
                    Append(@, userMessageOf(userMessage))]
            titled ==
                IF Len(pushed.chatHistory[currentSessionIndex].messages) = 1
                THEN [pushed EXCEPT !.chatHistory[currentSessionIndex].title =
                        InferTitle(userMessage)]
                ELSE pushed
            saved == saveHistory(titled)
            call ==
                [currentSessionIndex |-> currentSessionIndex,
                 userMessage |-> userMessage,
                 fullResponseText |-> "",
                 finalResponse |-> <<>>,
                 pc |-> "AwaitingFirstDelta",
                 view |-> "loading",
                 \* the deltas the backend has yet to yield
                 stream |-> stream,
                 \* history of the call, for the properties below
                 sid |-> st.currentChatId,
                 before |-> before,
                 deltas |-> <<>>,
                 moved |-> FALSE,
                 rival |->
                    \E k \in 1..Len(st.calls) :
                        /\ InFlight(st.calls[k])
                        /\ st.calls[k].currentSessionIndex = currentSessionIndex,
                 outcome |-> "pending"]
        IN  [saved EXCEPT !.submitDisabled = TRUE,
                          \* appendMessage(userMessage, 'user') and
                          \* appendMessage('loading', 'ai')
                          !.chatContainer =
                                Append(Append(@, userMessageOf(userMessage)),
                                       placeholder(Len(st.calls) + 1)),
                          !.calls = Append(Rivalled(@, currentSessionIndex), call)]

\* onChunk with the delta put in front of the buffer
onChunkPrepends(st, k, chunk) ==
    [st EXCEPT !.calls[k] =
        [@ EXCEPT !.fullResponseText = chunk.text \o @,
                  !.finalResponse = <<chunk>>,
                  !.view = "content",
                  !.pc = "Streaming",
                  !.stream = Tail(@),
                  !.deltas = Append(@, chunk)]]

\* onChunk that keeps the latest delta only
onChunkKeepsDelta(st, k, chunk) ==
    [st EXCEPT !.calls[k] =
        [@ EXCEPT !.fullResponseText = chunk.text,
                  !.finalResponse = <<chunk>>,
                  !.view = "content",
                  !.pc = "Streaming",
                  !.stream = Tail(@),
                  !.deltas = Append(@, chunk)]]

\* one turn of the for-await loop of call k
onChunk(st, k, chunk) ==
    [st EXCEPT !.calls[k] =
        [@ EXCEPT !.fullResponseText = @ \o chunk.text,
                  !.finalResponse = <<chunk>>,
                  !.view = "content",
                  !.pc = "Streaming",
                  !.stream = Tail(@),
                  !.deltas = Append(@, chunk)]]

\* finally { submitButton.disabled = false; ... }
finally(st) == [st EXCEPT !.submitDisabled = FALSE]

\* the frame of a call that has returned: its locals are gone, what stays is how
\* it ended and what its display entry shows
Returned(pc, view, outcome) ==
    [currentSessionIndex |-> 0,
     userMessage |-> "",
     fullResponseText |-> "",
     finalResponse |-> <<>>,
     pc |-> pc,
     view |-> view,
     stream |-> <<>>,
     sid |-> Null,
     before |-> <<>>,
     deltas |-> <<>>,
     moved |-> FALSE,
     rival |-> FALSE,
     outcome |-> outcome]

\* catch that also takes back the last message of the session of call k
catchRollsBack(st, k, why) ==
    LET i == st.calls[k].currentSessionIndex
        n == IF i <= Len(st.chatHistory) THEN Len(st.chatHistory[i].messages) ELSE 0
    IN  [st EXCEPT !.calls[k] = Returned("Failed", "error", why),
                   !.chatHistory =
                        IF n > 0
                        THEN [@ EXCEPT ![i].messages = SubSeq(@, 1, n - 1)]
                        ELSE @]

\* catch (error): the fixed error message replaces the placeholder's content
catch(st, k, why) ==
    [st EXCEPT !.calls[k] = Returned("Failed", "error", why)]

\* the placeholder of call k leaves the container, if it is still in it, and
\* appendMessage(fullResponseText, 'ai', groundingChunks) adds the final entry
finalized(st, k) ==
    LET c == st.calls[k]
    IN  [st EXCEPT !.chatContainer =
            Append(Without(@, placeholder(k)),
                   aiMessage(c.fullResponseText,
                             groundingChunksOf(c.finalResponse)))]

\* a commit that looks the current session up again instead of using the
\* captured index
onStreamEndToCurrent(st, k) ==
    LET c == st.calls[k]
        i == FindIndex(st.chatHistory, st.currentChatId)
    IN  IF c.fullResponseText # ""
        THEN IF i > 0
             THEN LET pushed ==
                        [finalized(st, k) EXCEPT !.chatHistory[i].messages =
                            Append(@, aiMessage(c.fullResponseText,
                                                groundingChunksOf(c.finalResponse)))]
                      saved == saveHistory(pushed)
                  IN  finally([saved EXCEPT !.calls[k] =
                        Returned("Idle", "finalized", "committed")])
             ELSE finally(catch(finalized(st, k), k, "throw"))
        ELSE finally([st EXCEPT !.calls[k] = Returned("Idle", c.view, "empty")])

\* a commit that puts the assistant's turn in the place of the last message
onStreamEndOverwrites(st, k) ==
    LET c == st.calls[k]
        i == c.currentSessionIndex
    IN  IF c.fullResponseText # ""
        THEN IF i <= Len(st.chatHistory)
             THEN LET n == Len(st.chatHistory[i].messages)
                      pushed ==
                        [finalized(st, k) EXCEPT !.chatHistory[i].messages =
                            Append(SubSeq(@, 1, IF n > 0 THEN n - 1 ELSE 0),
                                   aiMessage(c.fullResponseText,
                                             groundingChunksOf(c.finalResponse)))]
                      saved == saveHistory(pushed)
                  IN  finally([saved EXCEPT !.calls[k] =
                        Returned("Idle", "finalized", "committed")])
             ELSE finally(catch(finalized(st, k), k, "throw"))
        ELSE finally([st EXCEPT !.calls[k] = Returned("Idle", c.view, "empty")])

\* the stream of call k is exhausted: if (fullResponseText) { ... } and finally
onStreamEnd(st, k) ==
    LET c == st.calls[k]
        i == c.currentSessionIndex
        shown == finalized(st, k)
    IN  IF c.fullResponseText # ""
        THEN IF i <= Len(st.chatHistory)
             THEN LET pushed ==
                        [shown EXCEPT !.chatHistory[i].messages =
                            Append(@, aiMessage(c.fullResponseText,
                                                groundingChunksOf(c.finalResponse)))]
                      saved == saveHistory(pushed)
                  IN  finally([saved EXCEPT !.calls[k] =
                        Returned("Idle", "finalized", "committed")])
             \* chatHistory[currentSessionIndex] is undefined: a TypeError, caught
             ELSE finally(catch(shown, k, "throw"))
        ELSE finally([st EXCEPT !.calls[k] = Returned("Idle", c.view, "empty")])

\* onStreamError that keeps what the stream had delivered so far
onStreamErrorCommits(st, k) ==
    LET c == st.calls[k]
        i == c.currentSessionIndex
    IN  IF c.fullResponseText # "" /\ i <= Len(st.chatHistory)
        THEN finally(catch(
                saveHistory([st EXCEPT !.chatHistory[i].messages =
                    Append(@, aiMessage(c.fullResponseText,
                                        groundingChunksOf(c.finalResponse)))]),
                k, "error"))
        ELSE finally(catch(st, k, "error"))

\* the stream of call k, or the request that opens it, fails
onStreamError(st, k) == finally(catch(st, k, "error"))

\* part_000: startInspirationChat(prompt)
startInspirationChat(st, t, prompt, stream) ==
    sendMessage(createNewChat(st, t), prompt, stream)

(* --------------------------------------------------------- renderHistory *)
\* session.category || 'uncategorized'
categoryOf(session) ==
    IF "category" \in DOMAIN session /\ session.category # ""
    THEN session.category
    ELSE "uncategorized"

\* the position of the key category among the entries of acc, 0 when it has none
RECURSIVE KeyIndex(_, _, _)
KeyIndex(acc, category, i) ==
    IF i > Len(acc) THEN 0
    ELSE IF acc[i].category = category THEN i
    ELSE KeyIndex(acc, category, i + 1)

\* chatHistory.reduce(...): an object keeps its string keys in the order in
\* which they were first assigned, so acc is the sequence of its entries
RECURSIVE groupedByCategory(_, _)
groupedByCategory(acc, h) ==
    IF h = <<>> THEN acc
    ELSE LET session == h[1]
             category == categoryOf(session)
             k == KeyIndex(acc, category, 1)
         IN  groupedByCategory(
                IF k = 0
                THEN Append(acc, [category |-> category, sessions |-> <<session>>])
                ELSE [acc EXCEPT ![k].sessions = Append(@, session)],
                Tail(h))

\* the <details> elements renderHistory() appends, in order: the category of
\* each and the sessions of its items
renderHistory(h) ==
    LET entries == groupedByCategory(<<>>, h)
        shown == SelectSeq(entries, LAMBDA e : Len(e.sessions) # 0)
    IN  [g \in 1..Len(shown) |->
            [category |-> shown[g].category,
             sessions |-> SortDesc(shown[g].sessions)]]

(* --------------------------------------------------------------- actions *)
Init ==
    /\ chatHistory = <<>>
    /\ currentChatId = Null
    /\ currentChatInstance = <<>>
    /\ chatToDeleteId = Null
    /\ localStorage \in StoredAtStartup
    /\ submitDisabled = FALSE
    /\ chatContainer = <<>>
    /\ calls = <<>>
    /\ now = StartupClock(localStorage)
    /\ ops = 0
    /\ phase = "script"
    /\ request = [op |-> "none"]

\* the script reaches its last statement, loadHistory()
Startup ==
    /\ phase = "script"
    /\ now' = now + 1
    /\ Becomes(loadHistory(Heap, now'))
    /\ phase' = "ready"
    /\ UNCHANGED <<ops, request>>

\* newChatButton click
ClickNewChat ==
    /\ phase = "ready"
    /\ ops < MaxOps
    /\ now' \in DateNow(now)
    /\ Becomes(createNewChat(Heap, now'))
    /\ ops' = ops + 1
    /\ UNCHANGED <<phase, request>>

\* click on an item of the rendered history list
ClickHistoryItem ==
    /\ phase = "ready"
    /\ ops < MaxOps
    /\ \E i \in 1..Len(chatHistory) : Becomes(loadChat(Heap, chatHistory[i].id))
    /\ ops' = ops + 1
    /\ UNCHANGED <<now, phase, request>>

\* a "move to" button of an item of the rendered history list
ClickMove ==
    /\ phase = "ready"
    /\ ops < MaxOps
    /\ \E i \in 1..Len(chatHistory) :
        \E cat \in MoveTargets \ {chatHistory[i].category} :
            Becomes(moveChatToCategory(Heap, chatHistory[i].id, cat))
    /\ ops' = ops + 1
    /\ UNCHANGED <<now, phase, request>>

\* deleteButton.onclick of an item: chatToDeleteId = session.id
ClickDelete ==
    /\ phase = "ready"
    /\ ops < MaxOps
    /\ \E i \in 1..Len(chatHistory) : chatToDeleteId' = chatHistory[i].id
    /\ ops' = ops + 1
    /\ UNCHANGED <<chatHistory, currentChatId, currentChatInstance, localStorage,
                   submitDisabled, chatContainer, calls, now, phase, request>>

\* cancelDeleteBtn click
CancelDelete ==
    /\ phase = "ready"
    /\ chatToDeleteId # Null
    /\ Becomes(hideDeleteModal(Heap))
    /\ UNCHANGED <<now, ops, phase, request>>

\* confirmDeleteBtn click; the clock is read when the last session is deleted
ConfirmDelete ==
    /\ phase = "ready"
    /\ chatToDeleteId # Null
    /\ IF Len(chatHistory) = 1 /\ chatToDeleteId = currentChatId
       THEN now' \in DateNow(now)
       ELSE now' = now
    /\ Becomes(handleDeleteChat(Heap, now'))
    /\ UNCHANGED <<ops, phase, request>>

\* form submit, suggestion button, suggestion pill or add-hadith button
Send ==
    /\ phase = "ready"
    /\ Len(calls) < MaxCalls
    /\ \E text \in UserTexts, stream \in Streams :
        Becomes(sendMessage(Heap, text, stream))
    /\ UNCHANGED <<now, ops, phase, request>>

\* part_000: a button of the inspiration popup
ClickInspiration ==
    /\ phase = "ready"
    /\ Len(calls) < MaxCalls
    /\ ops < MaxOps
    /\ now' \in DateNow(now)
    /\ \E text \in UserTexts, stream \in Streams :
        Becomes(startInspirationChat(Heap, now', text, stream))
    /\ ops' = ops + 1
    /\ UNCHANGED <<phase, request>>

\* the backend yields the next delta of its stream to call k
StreamChunk ==
    /\ \E k \in 1..Len(calls) :
        /\ InFlight(calls[k])
        /\ calls[k].stream # <<>>
        /\ Becomes(onChunk(Heap, k, Head(calls[k].stream)))
    /\ UNCHANGED <<now, ops, phase, request>>

\* the backend closes the stream of call k
StreamClose ==
    /\ \E k \in 1..Len(calls) :
        /\ InFlight(calls[k])
        /\ calls[k].stream = <<>>
        /\ Becomes(onStreamEnd(Heap, k))
    /\ UNCHANGED <<now, ops, phase, request>>

\* the backend fails call k
StreamError ==
    /\ \E k \in 1..Len(calls) :
        /\ InFlight(calls[k])
        /\ Becomes(onStreamError(Heap, k))
    /\ UNCHANGED <<now, ops, phase, request>>

Next ==
    \/ Startup
    \/ ClickNewChat
    \/ ClickHistoryItem
    \/ ClickMove
    \/ ClickDelete
    \/ CancelDelete
    \/ ConfirmDelete
    \/ Send
    \/ ClickInspiration
    \/ StreamChunk
    \/ StreamClose
    \/ StreamError

Spec == Init /\ [][Next]_vars

(* ------------------------------------------- the handlers called directly *)
\* an id no session carries: Date.now() is at least 1 when a session is created
AbsentId == "chat_0"

\* the ids a caller may pass: those of the collection, and one that is absent
IdsOffered == {chatHistory[i].id : i \in 1..Len(chatHistory)} \cup {AbsentId}

\* loadChat(id)
CallLoadChat ==
    /\ phase = "ready"
    /\ ops < MaxOps
    /\ \E id \in IdsOffered :
        /\ request' = [op |-> "loadChat", id |-> id, n |-> ops + 1]
        /\ Becomes(loadChat(Heap, id))
    /\ ops' = ops + 1
    /\ UNCHANGED <<now, phase>>

\* moveChatToCategory(chatId, newCategory)
CallMoveChatToCategory ==
    /\ phase = "ready"
    /\ ops < MaxOps
    /\ \E id \in IdsOffered, cat \in MoveTargets :
        /\ request' = [op |-> "moveChatToCategory", id |-> id, category |-> cat,
                       n |-> ops + 1]
        /\ Becomes(moveChatToCategory(Heap, id, cat))
    /\ ops' = ops + 1
    /\ UNCHANGED <<now, phase>>

\* chatToDeleteId = id; handleDeleteChat()
CallHandleDeleteChat ==
    /\ phase = "ready"
    /\ ops < MaxOps
    /\ \E id \in IdsOffered :
        /\ request' = [op |-> "handleDeleteChat", id |-> id, n |-> ops + 1]
        /\ IF Len(chatHistory) = 1 /\ id = currentChatId
           THEN now' \in DateNow(now)
           ELSE now' = now
        /\ Becomes(handleDeleteChat([Heap EXCEPT !.chatToDeleteId = id], now'))
    /\ ops' = ops + 1
    /\ UNCHANGED phase

NextApi ==
    \/ Startup
    \/ ClickNewChat
    \/ CallLoadChat
    \/ CallMoveChatToCategory
    \/ CallHandleDeleteChat
    \/ Send
    \/ StreamChunk
    \/ StreamClose
    \/ StreamError

SpecApi == Init /\ [][NextApi]_vars

(* ------------------------------------------ localStorage.setItem throws *)
\* saveHistory() has no try: when setItem throws (quota exceeded), the
\* statements of the caller after saveHistory() do not run

\* createNewChat: the push is done, loadChat(newId) is not reached
createNewChatQuota(st, t) ==
    [st EXCEPT !.chatHistory = Append(@, newSession(t))]

\* handleDeleteChat: the splice is done; neither the promotion nor
\* hideDeleteModal() is reached
handleDeleteChatQuota(st) ==
    LET chatIndex == FindIndex(st.chatHistory, st.chatToDeleteId)
    IN  IF chatIndex > 0
        THEN [st EXCEPT !.chatHistory = Splice(@, chatIndex), !.calls = Moved(@)]
        ELSE hideDeleteModal(st)

\* moveChatToCategory: the category is assigned; renderHistory() is not reached
moveChatToCategoryQuota(st, chatId, newCategory) ==
    LET chatIndex == FindIndex(st.chatHistory, chatId)
    IN  IF chatIndex > 0
        THEN [st EXCEPT !.chatHistory[chatIndex].category = newCategory]
        ELSE st

\* sendMessage: the user's turn is pushed and the title set; the save is outside
\* the try, so the call ends there: no placeholder, no request to the backend
sendMessageQuota(st, userMessage) ==
    LET currentSessionIndex == FindIndex(st.chatHistory, st.currentChatId)
    IN  IF st.currentChatId = Null \/ st.currentChatInstance = <<>> THEN st
        ELSE IF currentSessionIndex = 0 THEN st
        ELSE
        LET pushed ==
                [st EXCEPT !.chatHistory[currentSessionIndex].messages =
                                Append(@, userMessageOf(userMessage)),
                           !.chatContainer =
                                Append(@, userMessageOf(userMessage))]
        IN  IF Len(pushed.chatHistory[currentSessionIndex].messages) = 1
            THEN [pushed EXCEPT !.chatHistory[currentSessionIndex].title =
                    InferTitle(userMessage)]
            ELSE pushed

\* the commit of call k: the assistant's turn is pushed; the save is inside the
\* try, so the error is caught and finally runs
onStreamEndQuota(st, k) ==
    LET c == st.calls[k]
        i == c.currentSessionIndex
        pushed ==
            [finalized(st, k) EXCEPT !.chatHistory[i].messages =
                Append(@, aiMessage(c.fullResponseText,
                                    groundingChunksOf(c.finalResponse)))]
    IN  finally(catch(pushed, k, "throw"))

\* newChatButton click while the storage is full
QuotaClickNewChat ==
    /\ phase = "ready"
    /\ ops < MaxOps
    /\ now' \in DateNow(now)
    /\ Becomes(createNewChatQuota(Heap, now'))
    /\ request' = [op |-> "createNewChat", propagated |-> TRUE, n |-> ops + 1]
    /\ ops' = ops + 1
    /\ UNCHANGED phase

\* confirmDeleteBtn click while the storage is full
QuotaConfirmDelete ==
    /\ phase = "ready"
    /\ ops < MaxOps
    /\ chatToDeleteId # Null
    /\ Becomes(handleDeleteChatQuota(Heap))
    /\ request' = [op |-> "handleDeleteChat", propagated |-> TRUE, n |-> ops + 1]
    /\ ops' = ops + 1
    /\ UNCHANGED <<now, phase>>

\* a "move to" button while the storage is full
QuotaClickMove ==
    /\ phase = "ready"
    /\ ops < MaxOps
    /\ \E i \in 1..Len(chatHistory) :
        \E cat \in MoveTargets \ {chatHistory[i].category} :
            Becomes(moveChatToCategoryQuota(Heap, chatHistory[i].id, cat))
    /\ request' = [op |-> "moveChatToCategory", propagated |-> TRUE, n |-> ops + 1]
    /\ ops' = ops + 1
    /\ UNCHANGED <<now, phase>>

\* a message sent while the storage is full
QuotaSend ==
    /\ phase = "ready"
    /\ ops < MaxOps
    /\ currentChatId # Null
    /\ currentChatInstance # <<>>
    /\ FindIndex(chatHistory, currentChatId) # 0
    /\ \E text \in UserTexts : Becomes(sendMessageQuota(Heap, text))
    /\ request' = [op |-> "sendMessage", propagated |-> TRUE, n |-> ops + 1]
    /\ ops' = ops + 1
    /\ UNCHANGED <<now, phase>>

\* the stream of call k closes while the storage is full
QuotaStreamClose ==
    /\ ops < MaxOps
    /\ \E k \in 1..Len(calls) :
        /\ InFlight(calls[k])
        /\ calls[k].stream = <<>>
        /\ calls[k].fullResponseText # ""
        /\ calls[k].currentSessionIndex <= Len(chatHistory)
        /\ Becomes(onStreamEndQuota(Heap, k))
    /\ request' = [op |-> "commit", propagated |-> FALSE, n |-> ops + 1]
    /\ ops' = ops + 1
    /\ UNCHANGED <<now, phase>>

NextQuota ==
    \/ Startup
    \/ ClickNewChat
    \/ ClickDelete
    \/ Send
    \/ StreamChunk
    \/ StreamClose
    \/ QuotaClickNewChat
    \/ QuotaConfirmDelete
    \/ QuotaClickMove
    \/ QuotaSend
    \/ QuotaStreamClose

SpecQuota == Init /\ [][NextQuota]_vars

(* ------------------------------------------------ the first message sent *)
\* two texts of 40 characters, of digits and of letters
LongTexts ==
    {"0123456789012345678901234567890123456789",
     "abcdefghijklmnopqrstuvwxyzabcdefghijklmn"}

\* the texts sent as first message: every non-empty prefix of a long text
\* (the callers of sendMessage do not pass an empty text)
TitleTexts == {SubSeq(text, 1, n) : text \in LongTexts, n \in 1..40}

\* the heap when the script starts
Blank ==
    [chatHistory |-> <<>>,
     currentChatId |-> Null,
     currentChatInstance |-> <<>>,
     chatToDeleteId |-> Null,
     localStorage |-> <<>>,
     submitDisabled |-> FALSE,
     chatContainer |-> <<>>,
     calls |-> <<>>]

\* the heap is st
Starts(st) ==
    /\ chatHistory = st.chatHistory
    /\ currentChatId = st.currentChatId
    /\ currentChatInstance = st.currentChatInstance
    /\ chatToDeleteId = st.chatToDeleteId
    /\ localStorage = st.localStorage
    /\ submitDisabled = st.submitDisabled
    /\ chatContainer = st.chatContainer
    /\ calls = st.calls

\* loadHistory() has run with nothing stored; the user has typed a text
InitTitle ==
    /\ Starts(loadHistory(Blank, 1))
    /\ now = 1
    /\ ops = 0
    /\ phase = "ready"
    /\ \E text \in TitleTexts : request = [op |-> "input", text |-> text]

\* the typed text is sent: the first message of the session
FirstMessage ==
    /\ request.op = "input"
    /\ Becomes(sendMessage(Heap, request.text, <<>>))
    /\ request' = [op |-> "sent", text |-> request.text]
    /\ UNCHANGED <<now, ops, phase>>

NextTitle ==
    \/ FirstMessage
    \/ StreamClose

SpecTitle == InitTitle /\ [][NextTitle]_vars

(* ------------------------------------------------ any stored collection *)
\* a category no key of CHAT_CATEGORIES names
ForeignCategory == "tafsir"

\* what the property category of a stored session may hold: a key of
\* CHAT_CATEGORIES, another text, or the empty text
StoredCategories == ChatCategory \cup {ForeignCategory, ""}

\* stored collections that JSON.parse and the map of loadHistory accept: two
\* sessions with any stored categories, or the collection of the old revision
StoredCollections ==
    {<<[id |-> "chat_1", title |-> "hukm...",
        messages |-> <<[sender |-> "user", content |-> "hukm..."]>>,
        category |-> c],
       [id |-> "chat_2", title |-> PlaceholderTitle, messages |-> <<>>,
        category |-> d]>> : c, d \in StoredCategories}
        \cup {LegacyStored}

InitStored ==
    /\ \E stored \in StoredCollections :
        Starts([Blank EXCEPT !.localStorage = <<stored>>])
    /\ now = StartupClock(localStorage)
    /\ ops = 0
    /\ phase = "script"
    /\ request = [op |-> "none"]

\* the initial load, and the clicks of the sidebar that select, create and
\* recategorize
NextStored ==
    \/ Startup
    \/ ClickNewChat
    \/ ClickHistoryItem
    \/ ClickMove

SpecStored == InitStored /\ [][NextStored]_vars

(* ------------------------------------------- a backend that keeps going *)
\* the calls and the backend, with the one button that changes the session
NextBackend ==
    \/ Startup
    \/ ClickNewChat
    \/ Send
    \/ StreamChunk
    \/ StreamClose
    \/ StreamError

\* a backend that does not hang: a delta that is due is delivered and an
\* exhausted stream is closed; the event loop then resumes the awaiting call
BackendKeepsGoing == WF_vars(StreamChunk) /\ WF_vars(StreamClose)

SpecBackend == Init /\ [][NextBackend]_vars /\ BackendKeepsGoing

(* -------------------------------------------------------- markdownToHtml *)
\* the character of s at position i (1-based)
At(s, i) == SubSeq(s, i, i)

\* pat occurs in s at position i
StartsAt(s, i, pat) ==
    /\ i >= 1
    /\ i + Len(pat) - 1 <= Len(s)
    /\ SubSeq(s, i, i + Len(pat) - 1) = pat

\* \s, over the characters of the texts rendered here
IsSpace(ch) == ch \in {" ", "\n", "\t"}

\* \s* from position i: the first position at or after i that holds no space
RECURSIVE SkipSpaces(_, _)
SkipSpaces(s, i) ==
    IF i <= Len(s) /\ IsSpace(At(s, i)) THEN SkipSpaces(s, i + 1) ELSE i

\* \d+ from position i: the first position at or after i that holds no digit
RECURSIVE SkipDigits(_, _)
SkipDigits(s, i) ==
    IF i <= Len(s) /\ IsDigit(At(s, i)) THEN SkipDigits(s, i + 1) ELSE i

\* (.*) from position i: the position of the next "\n", or Len(s) + 1
RECURSIVE LineEnd(_, _)
LineEnd(s, i) ==
    IF i <= Len(s) /\ At(s, i) # "\n" THEN LineEnd(s, i + 1) ELSE i

\* ^ under the flag m
LineStart(s, i) == i = 1 \/ At(s, i - 1) = "\n"

\* (.*?)\*\* from position j: the position of the first "**" at or after j
\* that no "\n" precedes, 0 when there is none
RECURSIVE ClosingStars(_, _)
ClosingStars(s, j) ==
    IF j + 1 > Len(s) THEN 0
    ELSE IF StartsAt(s, j, "**") THEN j
    ELSE IF At(s, j) = "\n" THEN 0
    ELSE ClosingStars(s, j + 1)

\* (.*)\*\* from position j: the position of the last "**" at or after j
\* that no "\n" precedes, 0 when there is none
RECURSIVE ClosingStarsLast(_, _, _)
ClosingStarsLast(s, j, found) ==
    IF j + 1 > Len(s) \/ At(s, j) = "\n" THEN found
    ELSE ClosingStarsLast(s, j + 1, IF StartsAt(s, j, "**") THEN j ELSE found)

\* the bold replace with a greedy (.*)
RECURSIVE ReplaceBoldGreedy(_, _)
ReplaceBoldGreedy(s, i) ==
    IF i > Len(s) THEN ""
    ELSE IF StartsAt(s, i, "**") /\ ClosingStarsLast(s, i + 2, 0) # 0
    THEN LET j == ClosingStarsLast(s, i + 2, 0)
         IN  "<strong>" \o SubSeq(s, i + 2, j - 1) \o "</strong>"
                \o ReplaceBoldGreedy(s, j + 2)
    ELSE At(s, i) \o ReplaceBoldGreedy(s, i + 1)

\* .replace(/\*\*(.*?)\*\*/g, '<strong>$1</strong>'), from position i on
RECURSIVE ReplaceBold(_, _)
ReplaceBold(s, i) ==
    IF i > Len(s) THEN ""
    ELSE IF StartsAt(s, i, "**") /\ ClosingStars(s, i + 2) # 0
    THEN LET j == ClosingStars(s, i + 2)
         IN  "<strong>" \o SubSeq(s, i + 2, j - 1) \o "</strong>"
                \o ReplaceBold(s, j + 2)
    ELSE At(s, i) \o ReplaceBold(s, i + 1)

\* the position after the marker of a list line that begins at i, 0 when the
\* line is none: [*|-] for kind "ul", \d+\. for kind "ol", after \s*
MarkerEnd(s, i, kind) ==
    LET a == SkipSpaces(s, i)
    IN  IF kind = "ul"
        THEN IF a <= Len(s) /\ At(s, a) \in {"*", "|", "-"} THEN a + 1 ELSE 0
        ELSE LET d == SkipDigits(s, a)
             IN  IF d > a /\ d <= Len(s) /\ At(s, d) = "." THEN d + 1 ELSE 0

\* .replace(/^\s*[*|-]\s+(.*)/gm, '<li>$1</li>') for kind "ul" and
\* .replace(/^\s*\d+\.\s+(.*)/gm, '<li>$1</li>') for kind "ol", from position i on
RECURSIVE ReplaceItems(_, _, _)
ReplaceItems(s, i, kind) ==
    IF i > Len(s) THEN ""
    ELSE LET m == IF LineStart(s, i) THEN MarkerEnd(s, i, kind) ELSE 0
         IN  IF m # 0 /\ m <= Len(s) /\ IsSpace(At(s, m))
             THEN LET b == SkipSpaces(s, m)
                      e == LineEnd(s, b)
                  IN  "<li>" \o SubSeq(s, b, e - 1) \o "</li>"
                        \o ReplaceItems(s, e, kind)
             ELSE At(s, i) \o ReplaceItems(s, i + 1, kind)

\* (<\/li>\n)+ from position i: the position after the last repetition
RECURSIVE SkipItemEnds(_, _)
SkipItemEnds(s, i) ==
    IF StartsAt(s, i, "</li>\n") THEN SkipItemEnds(s, i + 6) ELSE i

\* .replace(/(\<\/li\>\n)+<li>/g, '</li><li>'), from position i on
RECURSIVE MergeItems(_, _)
MergeItems(s, i) ==
    IF i > Len(s) THEN ""
    ELSE LET e == SkipItemEnds(s, i)
         IN  IF e > i /\ StartsAt(s, e, "<li>")
             THEN "</li><li>" \o MergeItems(s, e + 4)
             ELSE At(s, i) \o MergeItems(s, i + 1)

\* the first position at or after i where pat occurs in s, 0 when there is none
RECURSIVE IndexOf(_, _, _)
IndexOf(s, pat, i) ==
    IF i + Len(pat) - 1 > Len(s) THEN 0
    ELSE IF StartsAt(s, i, pat) THEN i
    ELSE IndexOf(s, pat, i + 1)

\* the last position at or before i where pat occurs in s, 0 when there is none
RECURSIVE LastIndexOf(_, _, _)
LastIndexOf(s, pat, i) ==
    IF i < 1 THEN 0
    ELSE IF StartsAt(s, i, pat) THEN i
    ELSE LastIndexOf(s, pat, i - 1)

\* the wrap with a lazy .*?, which ends at the first "</li>"
WrapItemsLazy(s, tag) ==
    LET a == IndexOf(s, "<li>", 1)
        z == IF a = 0 THEN 0 ELSE IndexOf(s, "</li>", a)
    IN  IF a # 0 /\ z >= a + 4
        THEN SubSeq(s, 1, a - 1)
                \o "<" \o tag \o ">" \o SubSeq(s, a, z + 4) \o "</" \o tag \o ">"
                \o SubSeq(s, z + 5, Len(s))
        ELSE s

\* .replace(/(<li>.*<\/li>)/s, '<tag>$1</tag>'): no flag g, so the first match
\* only; .* is greedy and, under the flag s, crosses "\n"
WrapItems(s, tag) ==
    LET a == IndexOf(s, "<li>", 1)
        z == IF a = 0 THEN 0 ELSE LastIndexOf(s, "</li>", Len(s))
    IN  IF a # 0 /\ z >= a + 4
        THEN SubSeq(s, 1, a - 1)
                \o "<" \o tag \o ">" \o SubSeq(s, a, z + 4) \o "</" \o tag \o ">"
                \o SubSeq(s, z + 5, Len(s))
        ELSE s

\* .replace(/\n/g, '<br>'), from position i on
RECURSIVE ReplaceNewlines(_, _)
ReplaceNewlines(s, i) ==
    IF i > Len(s) THEN ""
    ELSE (IF At(s, i) = "\n" THEN "<br>" ELSE At(s, i)) \o ReplaceNewlines(s, i + 1)

markdownToHtml(text) ==
    LET bold == ReplaceBold(text, 1)
        items == ReplaceItems(bold, 1, "ul")
        merged == MergeItems(items, 1)
        ul == WrapItems(merged, "ul")
        numbered == ReplaceItems(ul, 1, "ol")
        remerged == MergeItems(numbered, 1)
        ol == WrapItems(remerged, "ol")
    IN  ReplaceNewlines(ol, 1)

\* the characters of the texts rendered
RenderAlphabet == {"*", "-", " ", "x", "\n", "1", "."}

\* the texts of at most n characters
RECURSIVE TextsUpTo(_)
TextsUpTo(n) ==
    IF n = 0 THEN {""}
    ELSE LET shorter == TextsUpTo(n - 1)
         IN  shorter \cup {t \o ch : t \in shorter, ch \in RenderAlphabet}

\* longer texts: lists, bold spans, and both
SampleTexts ==
    {"- a\n- b\n- c", "**x**", "**x", "a **b** c", "**a**b**c**", "**a\nb**",
     "x\n- a\n- b", "- a\nx\n- b", "1. a\n2. b", "- a\n1. b", "- **a**\n- b",
     "* a\n* b", "| a", "- a\n\n- b", "a ** b", "**x** **",
     "- a\n- b\nx\n- c", "1. a\nx\n2. b"}

\* the contents of messages and the buffers of streams
RenderTexts == TextsUpTo(MaxTextLen) \cup SampleTexts

\* a text is about to be shown
InitRender ==
    /\ Starts(loadHistory(Blank, 1))
    /\ now = 1
    /\ ops = 0
    /\ phase = "ready"
    /\ \E text \in RenderTexts : request = [op |-> "text", text |-> text]

\* messageContent.innerHTML = markdownToHtml(content)
RenderText ==
    /\ request.op = "text"
    /\ request' = [op |-> "html", text |-> request.text,
                   html |-> markdownToHtml(request.text)]
    /\ UNCHANGED <<chatHistory, currentChatId, currentChatInstance, chatToDeleteId,
                   localStorage, submitDisabled, chatContainer, calls, now, ops,
                   phase>>

NextRender ==
    \/ RenderText

SpecRender == InitRender /\ [][NextRender]_vars

(* ------------------------------------------------------------ properties *)
\* the number of assistant messages in a message list, and in a collection
RECURSIVE AiMessages(_)
AiMessages(msgs) ==
    IF msgs = <<>> THEN 0
    ELSE (IF msgs[1].sender = "ai" THEN 1 ELSE 0) + AiMessages(Tail(msgs))

RECURSIVE AiCount(_)
AiCount(h) == IF h = <<>> THEN 0 ELSE AiMessages(h[1].messages) + AiCount(Tail(h))

\* the texts of the deltas received, joined in arrival order
RECURSIVE ConcatTexts(_)
ConcatTexts(deltas) ==
    IF deltas = <<>> THEN "" ELSE deltas[1].text \o ConcatTexts(Tail(deltas))

\* nothing but the call itself touched the session of call c since it began
Alone(c) == ~c.moved /\ ~c.rival

\* m is the user's turn of call c
IsUserTurn(m, c) == m = [sender |-> "user", content |-> c.userMessage]

\* m is the assistant's turn built from the deltas call c received: their texts
\* in arrival order, and the citations of the last delta, if it carries any
IsAssistantTurn(m, c) ==
    /\ c.deltas # <<>>
    /\ m.sender = "ai"
    /\ m.content = ConcatTexts(c.deltas)
    /\ LET last == c.deltas[Len(c.deltas)]
       IN  IF "groundingChunks" \in DOMAIN last
           THEN "sources" \in DOMAIN m /\ m.sources = last.groundingChunks
           ELSE "sources" \notin DOMAIN m

\* C1: in every step at most one assistant message is appended; a step appends
\* one only when it ends a call whose stream is exhausted and whose buffer is
\* not empty; a call that has returned never runs again, and a step in which a
\* call fails appends nothing.
C1_CommitAtMostOnce ==
    [][phase = "ready" =>
        /\ AiCount(chatHistory') <= AiCount(chatHistory) + 1
        /\ AiCount(chatHistory') > AiCount(chatHistory) =>
            \E k \in 1..Len(calls) :
                /\ InFlight(calls[k])
                /\ calls[k].stream = <<>>
                /\ calls[k].fullResponseText # ""
                /\ ~InFlight(calls'[k])
        /\ \A k \in 1..Len(calls) :
            /\ ~InFlight(calls[k]) => calls'[k] = calls[k]
            /\ InFlight(calls[k]) /\ calls'[k].pc = "Failed" =>
                AiCount(chatHistory') = AiCount(chatHistory)]_vars

\* one call committed its answer and another failed, and a session holds two
\* user turns with a single answer
C1_Witness ==
    /\ \E k, j \in 1..Len(calls) :
        calls[k].outcome = "committed" /\ calls[j].outcome = "error"
    /\ \E i \in 1..Len(chatHistory) :
        /\ Len(chatHistory[i].messages) = 3
        /\ AiMessages(chatHistory[i].messages) = 1

\* C2: when a call begins while another call on the same session is in flight
\* and both commit, the session holds exactly one assistant message more than
\* before the calls.
C2_OneAnswerForTwoCalls ==
    [][\A k \in 1..Len(calls) :
        (/\ InFlight(calls[k])
         /\ calls[k].rival
         /\ ~calls[k].moved
         /\ calls'[k].outcome = "committed")
        => LET msgs == chatHistory'[calls[k].currentSessionIndex].messages
           IN  AiMessages(msgs) = AiMessages(calls[k].before) + 1]_vars

\* C3: no two calls are in flight for the same session.
C3_OneStreamPerSession ==
    \A k, j \in 1..Len(calls) :
        (/\ k # j
         /\ InFlight(calls[k]) /\ InFlight(calls[j])
         /\ ~calls[k].moved /\ ~calls[j].moved)
        => calls[k].currentSessionIndex # calls[j].currentSessionIndex

\* C4: once the history is loaded the collection is not empty and the current
\* id is the id of exactly one of its sessions.
C4_ExactlyOneCurrent ==
    phase = "ready" =>
        /\ Len(chatHistory) > 0
        /\ Cardinality({i \in 1..Len(chatHistory) : chatHistory[i].id = currentChatId}) = 1

\* C5: the step in which the stream of a call fails changes neither the
\* collection nor the persisted blob, and if nothing else touched the session
\* since the call began its messages are those before the call followed by the
\* user's turn.
C5_FailureKeepsUserTurn ==
    [][\A k \in 1..Len(calls) :
        (InFlight(calls[k]) /\ calls'[k].outcome = "error")
        => /\ chatHistory' = chatHistory
           /\ localStorage' = localStorage
           /\ Alone(calls[k]) =>
                LET msgs == chatHistory'[calls[k].currentSessionIndex].messages
                IN  /\ Len(msgs) = Len(calls[k].before) + 1
                    /\ SubSeq(msgs, 1, Len(calls[k].before)) = calls[k].before
                    /\ IsUserTurn(msgs[Len(msgs)], calls[k])]_vars

\* a single call failed after no click in the sidebar, and the current session
\* ends with a user turn
C5_Witness ==
    /\ ops = 0
    /\ Len(calls) = 1
    /\ calls[1].outcome = "error"
    /\ \E i \in 1..Len(chatHistory) :
        /\ chatHistory[i].id = currentChatId
        /\ chatHistory[i].messages # <<>>
        /\ chatHistory[i].messages[Len(chatHistory[i].messages)].sender = "user"

\* C6: when a call commits and nothing else touched its session since it began,
\* the session's messages are those before the call, the user's turn of the call
\* and then the assistant's turn: the delta texts in arrival order with the
\* citations of the last delta.
C6_CommitIsConcatenation ==
    [][\A k \in 1..Len(calls) :
        (/\ InFlight(calls[k])
         /\ calls'[k].outcome = "committed"
         /\ Alone(calls[k]))
        => LET msgs == chatHistory'[calls[k].currentSessionIndex].messages
               n == Len(calls[k].before)
           IN  /\ Len(msgs) = n + 2
               /\ SubSeq(msgs, 1, n) = calls[k].before
               /\ IsUserTurn(msgs[n + 1], calls[k])
               /\ IsAssistantTurn(msgs[n + 2], calls[k])]_vars

\* a single call committed after no click in the sidebar: the current session
\* ends with the answer "ab" and its citation
C6_Witness ==
    /\ ops = 0
    /\ Len(calls) = 1
    /\ calls[1].outcome = "committed"
    /\ \E i \in 1..Len(chatHistory) :
        LET msgs == chatHistory[i].messages
        IN  /\ Len(msgs) >= 2
            /\ msgs[Len(msgs) - 1].sender = "user"
            /\ msgs[Len(msgs)] = [sender |-> "ai", content |-> "ab", sources |-> <<Citation>>]

\* C7: the step in which a call begins appends the user's turn to the current
\* session and leaves it in the persisted blob, with no delta received yet; the
\* step in which the call commits finds the user's turn last in the persisted
\* session and leaves the assistant's turn right behind it.
C7_UserTurnPersistedFirst ==
    [][/\ Len(calls') > Len(calls) =>
            LET c == calls'[Len(calls')]
                i == c.currentSessionIndex
            IN  /\ i = FindIndex(chatHistory', currentChatId')
                /\ i > 0
                /\ IsUserTurn(chatHistory'[i].messages[Len(chatHistory'[i].messages)], c)
                /\ localStorage' # <<>>
                /\ Len(localStorage'[1]) = Len(chatHistory')
                /\ localStorage'[1][i].messages = chatHistory'[i].messages
                /\ c.pc = "AwaitingFirstDelta"
                /\ c.deltas = <<>>
       /\ \A k \in 1..Len(calls) :
            (/\ InFlight(calls[k])
             /\ calls'[k].outcome = "committed"
             /\ Alone(calls[k]))
            => LET i == calls[k].currentSessionIndex
                   was == localStorage[1][i].messages
                   is == localStorage'[1][i].messages
               IN  /\ IsUserTurn(was[Len(was)], calls[k])
                   /\ Len(is) = Len(was) + 1
                   /\ SubSeq(is, 1, Len(was)) = was
                   /\ is[Len(is)].sender = "ai"]_vars

\* a single call committed after no click in the sidebar: a persisted session
\* ends with a user turn followed by an assistant turn
C7_Witness ==
    /\ ops = 0
    /\ Len(calls) = 1
    /\ calls[1].outcome = "committed"
    /\ localStorage # <<>>
    /\ \E i \in 1..Len(localStorage[1]) :
        LET msgs == localStorage[1][i].messages
        IN  /\ Len(msgs) = 2
            /\ msgs[1].sender = "user"
            /\ msgs[2].sender = "ai"

\* C8: the step that deletes the current session leaves, when sessions remain,
\* a current id that belongs to a remaining session and whose ordering key no
\* remaining session exceeds; when none remains it leaves one new empty session,
\* which is current.
C8_DeletePromotesMostRecent ==
    [][(/\ phase = "ready"
        /\ chatToDeleteId # Null
        /\ chatToDeleteId = currentChatId
        /\ chatToDeleteId' = Null
        /\ chatHistory' # chatHistory)
       => IF Len(chatHistory) > 1
          THEN /\ Len(chatHistory') = Len(chatHistory) - 1
               /\ \E i \in 1..Len(chatHistory') : chatHistory'[i].id = currentChatId'
               /\ \A i \in 1..Len(chatHistory') :
                    IdKey(chatHistory'[i].id) <= IdKey(currentChatId')
          ELSE /\ Len(chatHistory') = 1
               /\ chatHistory'[1].messages = <<>>
               /\ chatHistory'[1].title = PlaceholderTitle
               /\ chatHistory'[1].category = "uncategorized"
               /\ currentChatId' = chatHistory'[1].id]_vars

\* the stored sessions chat_1 and chat_2 remain after a session created later was
\* deleted while current, and chat_2, not the first session, is current
C8_Witness ==
    /\ ops = 2
    /\ now = 4
    /\ chatToDeleteId = Null
    /\ Len(chatHistory) = 2
    /\ chatHistory[1].id = "chat_1"
    /\ chatHistory[2].id = "chat_2"
    /\ currentChatId = "chat_2"

\* C9: the step of createNewChat appends one session and changes no other; the
\* new session has no message, the category uncategorized and the placeholder
\* title; it is the session the current id resolves to; and the persisted blob
\* holds the collection with it.
C9_CreateAddsCurrentSession ==
    [][(/\ phase = "ready"
        /\ Len(chatHistory') = Len(chatHistory) + 1
        /\ calls' = calls)
       => LET n == Len(chatHistory')
          IN  /\ SubSeq(chatHistory', 1, n - 1) = chatHistory
              /\ chatHistory'[n].messages = <<>>
              /\ chatHistory'[n].category = "uncategorized"
              /\ chatHistory'[n].title = PlaceholderTitle
              /\ FindIndex(chatHistory', currentChatId') = n
              /\ localStorage' # <<>>
              /\ Len(localStorage'[1]) = n
              /\ \A i \in 1..n : localStorage'[1][i] = chatHistory'[i]]_vars

\* C10: no two sessions of the collection have the same id.
C10_UniqueIds ==
    \A i, j \in 1..Len(chatHistory) :
        i # j => chatHistory[i].id # chatHistory[j].id

\* no session of h carries id
Absent(h, id) == \A i \in 1..Len(h) : h[i].id # id

\* C11: a call of loadChat with an id no session carries changes neither the
\* current id, the backend handle, the collection nor the persisted blob; a call
\* with an id of the collection leaves that id current and changes neither the
\* collection (messages, title and category of every session) nor the blob.
C11_SelectFrame ==
    [][(request' # request /\ request'.op = "loadChat")
       => IF Absent(chatHistory, request'.id)
          THEN UNCHANGED <<currentChatId, currentChatInstance, chatHistory,
                           localStorage>>
          ELSE /\ currentChatId' = request'.id
               /\ chatHistory' = chatHistory
               /\ localStorage' = localStorage]_vars

\* the second stored session was selected while the first was current
C11_Witness ==
    /\ request.op = "loadChat"
    /\ request.id = "chat_2"
    /\ currentChatId = "chat_2"
    /\ Len(chatHistory) = 2
    /\ chatHistory[1].id = "chat_1"
    /\ Len(chatHistory[1].messages) = 2

\* C12: a call of moveChatToCategory with an id of the collection overwrites the
\* category of one session that carries it, changes no other field of it and no
\* other session, keeps the current id, and leaves a blob that holds the
\* collection; with an id no session carries, the collection, the current id
\* and the blob stay as they were.
C12_RecategorizeFrame ==
    [][(request' # request /\ request'.op = "moveChatToCategory")
       => IF Absent(chatHistory, request'.id)
          THEN UNCHANGED <<chatHistory, currentChatId, localStorage>>
          ELSE /\ \E i \in 1..Len(chatHistory) :
                    /\ chatHistory[i].id = request'.id
                    /\ Len(chatHistory') = Len(chatHistory)
                    /\ chatHistory'[i].category = request'.category
                    /\ chatHistory'[i].id = chatHistory[i].id
                    /\ chatHistory'[i].title = chatHistory[i].title
                    /\ chatHistory'[i].messages = chatHistory[i].messages
                    /\ \A j \in 1..Len(chatHistory) :
                        j # i => chatHistory'[j] = chatHistory[j]
               /\ currentChatId' = currentChatId
               /\ localStorage' = <<Stringify(chatHistory')>>]_vars

\* the first stored session, which holds two messages, was moved to a category
C12_Witness ==
    /\ request.op = "moveChatToCategory"
    /\ request.id = "chat_1"
    /\ Len(chatHistory) = 2
    /\ chatHistory[1].id = "chat_1"
    /\ chatHistory[1].category = request.category
    /\ Len(chatHistory[1].messages) = 2
    /\ chatHistory[2].category = "fiqh"

\* C13: a delete of an id no session carries changes neither the collection nor
\* the current id; a delete of an id that is carried and is not current removes
\* one session that carries it, keeps the others in their order, and keeps the
\* current id.
C13_DeleteFrame ==
    [][(request' # request /\ request'.op = "handleDeleteChat")
       => IF Absent(chatHistory, request'.id)
          THEN UNCHANGED <<chatHistory, currentChatId>>
          ELSE request'.id # currentChatId
               => /\ \E i \in 1..Len(chatHistory) :
                        /\ chatHistory[i].id = request'.id
                        /\ Len(chatHistory') = Len(chatHistory) - 1
                        /\ \A j \in 1..Len(chatHistory') :
                            chatHistory'[j] =
                                IF j < i THEN chatHistory[j] ELSE chatHistory[j + 1]
                  /\ currentChatId' = currentChatId]_vars

\* a stored session was deleted while a session created later was current; the
\* other stored session remains before the current one
C13_Witness ==
    /\ request.op = "handleDeleteChat"
    /\ request.id = "chat_2"
    /\ Len(chatHistory) = 2
    /\ chatHistory[1].id = "chat_1"
    /\ currentChatId = chatHistory[2].id
    /\ currentChatId # "chat_1"

\* the position of a category in the declaration of CHAT_CATEGORIES
DeclaredAt(category) ==
    CHOOSE i \in 1..Len(CHAT_CATEGORIES) : CHAT_CATEGORIES[i] = category

\* C14: the groups of the listing follow the declaration order of the
\* categories, whatever the order of the sessions in the collection, and no
\* group is empty.
C14_GroupsInDeclaredOrder ==
    LET listing == renderHistory(chatHistory)
    IN  /\ \A g \in 1..Len(listing) : listing[g].sessions # <<>>
        /\ \A g1, g2 \in 1..Len(listing) :
            g1 < g2 => DeclaredAt(listing[g1].category) < DeclaredAt(listing[g2].category)

\* the number of the sessions of all the groups of a listing
RECURSIVE Listed(_)
Listed(listing) ==
    IF listing = <<>> THEN 0 ELSE Len(listing[1].sessions) + Listed(Tail(listing))

\* C15: the listing holds as many items as the collection holds sessions; every
\* session is an item of a group of its own category and every item of a group
\* is a session of that category; no two groups have the same category; and in
\* each group the ordering keys strictly descend.
C15_GroupsPartitionNewestFirst ==
    LET listing == renderHistory(chatHistory)
    IN  /\ Listed(listing) = Len(chatHistory)
        /\ \A i \in 1..Len(chatHistory) :
            \E g \in 1..Len(listing) :
                /\ listing[g].category = chatHistory[i].category
                /\ \E j \in 1..Len(listing[g].sessions) :
                    listing[g].sessions[j] = chatHistory[i]
        /\ \A g \in 1..Len(listing) :
            \A j \in 1..Len(listing[g].sessions) :
                listing[g].sessions[j].category = listing[g].category
        /\ \A g1, g2 \in 1..Len(listing) :
            g1 # g2 => listing[g1].category # listing[g2].category
        /\ \A g \in 1..Len(listing) :
            \A j \in 1..(Len(listing[g].sessions) - 1) :
                IdKey(listing[g].sessions[j].id) > IdKey(listing[g].sessions[j + 1].id)

\* C16: every step after startup that changes the collection (a user message
\* appended, with the title it may set; an assistant message committed; a
\* session created, deleted or moved to a category) leaves a blob that holds
\* every session of the collection, each equal to the session in memory.
C16_BlobIsWholeCollection ==
    [][(phase = "ready" /\ chatHistory' # chatHistory)
       => /\ localStorage' # <<>>
          /\ Len(localStorage'[1]) = Len(chatHistory')
          /\ \A i \in 1..Len(chatHistory') :
                /\ localStorage'[1][i] = chatHistory'[i]
                /\ localStorage'[1][i].title = chatHistory'[i].title]_vars

\* a first message sent to the second stored session set its title, and the
\* blob holds that title and the first stored session with its category
C16_Witness ==
    /\ Len(chatHistory) = 2
    /\ Len(calls) = 1
    /\ Len(chatHistory[2].messages) = 1
    /\ chatHistory[2].title # PlaceholderTitle
    /\ Len(chatHistory[2].title) = TitleLimit + 3
    /\ localStorage = <<chatHistory>>
    /\ localStorage[1][1].id = "chat_1"
    /\ localStorage[1][1].category = "uncategorized"

\* the number of sessions of h that carry id
RECURSIVE Carrying(_, _)
Carrying(h, id) ==
    IF h = <<>> THEN 0
    ELSE (IF h[1].id = id THEN 1 ELSE 0) + Carrying(Tail(h), id)

\* C17: a handler whose storage write fails does not let the error out, leaves
\* exactly one session current, and has done all it does in memory: a create
\* leaves its new session current, and a delete of the current session leaves a
\* remaining session current and the pending delete cleared.
C17_WriteFailureContained ==
    [][(request' # request /\ "propagated" \in DOMAIN request')
       => /\ ~request'.propagated
          /\ Carrying(chatHistory', currentChatId') = 1
          /\ request'.op = "createNewChat"
                => /\ Len(chatHistory') = Len(chatHistory) + 1
                   /\ currentChatId' = chatHistory'[Len(chatHistory')].id
          /\ request'.op = "handleDeleteChat"
                => /\ Len(chatHistory') = Len(chatHistory) - 1
                   /\ chatToDeleteId' = Null]_vars

\* C18: the step that loads a stored collection leaves as many sessions as were
\* stored, in the stored order, each with the stored id, title and messages; a
\* session stored with a category keeps it, and a session stored without one
\* is uncategorized.
C18_MigrationKeepsFields ==
    [][(phase = "script" /\ phase' = "ready"
        /\ localStorage # <<>> /\ localStorage[1] # <<>>)
       => /\ Len(chatHistory') = Len(localStorage[1])
          /\ \A i \in 1..Len(chatHistory') :
                LET stored == localStorage[1][i]
                IN  /\ chatHistory'[i].id = stored.id
                    /\ chatHistory'[i].title = stored.title
                    /\ chatHistory'[i].messages = stored.messages
                    /\ chatHistory'[i].category =
                            IF "category" \in DOMAIN stored
                            THEN stored.category
                            ELSE "uncategorized"]_vars

\* the stored collection has just been loaded: its first session was stored
\* without a category and is uncategorized, its second keeps its category
C18_Witness ==
    /\ phase = "ready"
    /\ ops = 0
    /\ calls = <<>>
    /\ localStorage # <<>>
    /\ Len(localStorage[1]) = 2
    /\ "category" \notin DOMAIN localStorage[1][1]
    /\ Len(chatHistory) = 2
    /\ chatHistory[1].category = "uncategorized"
    /\ Len(chatHistory[1].messages) = 2
    /\ chatHistory[2].category = "fiqh"

\* C19: every session without a message has the placeholder title, and every
\* session with a message begins with a user message whose truncation is its
\* title. (The sessions stored at startup were created by earlier runs and
\* satisfy this as stored.)
C19_TitleFollowsFirstMessage ==
    \A i \in 1..Len(chatHistory) :
        LET session == chatHistory[i]
        IN  IF session.messages = <<>>
            THEN session.title = PlaceholderTitle
            ELSE /\ session.messages[1].sender = "user"
                 /\ session.title = InferTitle(session.messages[1].content)

\* C20: once a text m has been sent as the first message of a session, the
\* title of the session is m when m has at most 30 characters, and the first 30
\* characters of m followed by "..." when it has more.
C20_TitleTruncation ==
    request.op = "sent"
        => LET m == request.text
           IN  chatHistory[1].title =
                    IF Len(m) <= 30 THEN m ELSE SubSeq(m, 1, 30) \o "..."

\* a text of exactly 30 characters was sent and is the title, unmarked
C20_Witness ==
    /\ request.op = "sent"
    /\ Len(request.text) = 30
    /\ Len(chatHistory[1].messages) = 1
    /\ chatHistory[1].title = request.text

\* the message list old is the beginning of the message list new
IsPrefix(old, new) ==
    /\ Len(old) <= Len(new)
    /\ \A m \in 1..Len(old) : new[m] = old[m]

\* the step is a confirmed delete that removed a session
IsDeleteStep ==
    /\ chatToDeleteId # Null
    /\ chatToDeleteId' = Null
    /\ chatHistory' # chatHistory

\* C21: after startup, a step other than a delete keeps every session in its
\* place with the messages it had, in their order, at the beginning of its
\* message list; a delete that leaves sessions of the old collection removes
\* one position and keeps the message lists of the others as they were.
C21_MessagesOnlyGrowAtEnd ==
    [][phase = "ready"
       => IF IsDeleteStep
          THEN Len(chatHistory) > 1
               => \E i \in 1..Len(chatHistory) :
                    /\ Len(chatHistory') = Len(chatHistory) - 1
                    /\ \A j \in 1..Len(chatHistory') :
                        chatHistory'[j].messages =
                            chatHistory[IF j < i THEN j ELSE j + 1].messages
          ELSE /\ Len(chatHistory') >= Len(chatHistory)
               /\ \A i \in 1..Len(chatHistory) :
                    IsPrefix(chatHistory[i].messages, chatHistory'[i].messages)]_vars

\* a session holds the two turns of a first call and the user's turn of a second
C21_Witness ==
    /\ Len(calls) = 2
    /\ calls[1].outcome = "committed"
    /\ \E i \in 1..Len(chatHistory) :
        /\ Len(chatHistory[i].messages) = 3
        /\ chatHistory[i].messages[1].sender = "user"
        /\ chatHistory[i].messages[2].sender = "ai"
        /\ chatHistory[i].messages[3].sender = "user"

\* the number of positions at or after i where pat occurs in s
RECURSIVE Occurrences(_, _, _)
Occurrences(s, pat, i) ==
    IF i + Len(pat) - 1 > Len(s) THEN 0
    ELSE (IF SubSeq(s, i, i + Len(pat) - 1) = pat THEN 1 ELSE 0)
            + Occurrences(s, pat, i + 1)

\* C22: the rendering of the three list lines "- a", "- b", "- c" holds one
\* list wrapper in all, and in it the three items a, b, c in that order.
C22_ListRendersAsOneWrapper ==
    (request.op = "html" /\ request.text = "- a\n- b\n- c")
        => /\ Occurrences(request.html, "<ul>", 1)
                + Occurrences(request.html, "<ol>", 1) = 1
           /\ Occurrences(request.html, "<li>", 1) = 3
           /\ Occurrences(request.html, "<li>a</li><li>b</li><li>c</li>", 1) = 1

\* the first "**" of text and the first "**" after it, 0 when there is none
FirstStars(text) == IndexOf(text, "**", 1)
SecondStars(text) ==
    IF FirstStars(text) = 0 THEN 0 ELSE IndexOf(text, "**", FirstStars(text) + 2)

\* the text between the first pair of "**" of text
BetweenStars(text) == SubSeq(text, FirstStars(text) + 2, SecondStars(text) - 1)

\* text begins, after spaces, with a list marker and a space
BeginsListLine(text) ==
    LET a == SkipSpaces(text, 1)
        d == SkipDigits(text, a)
    IN  \/ a < Len(text) /\ At(text, a) \in {"*", "|", "-"} /\ IsSpace(At(text, a + 1))
        \/ d > a /\ d < Len(text) /\ At(text, d) = "." /\ IsSpace(At(text, d + 1))

\* a text with one "**", no line break and no list line is rendered as it is
UnmatchedStarsStay ==
    (/\ request.op = "html"
     /\ Occurrences(request.text, "**", 1) = 1
     /\ Occurrences(request.text, "\n", 1) = 0
     /\ ~BeginsListLine(request.text))
        => request.html = request.text

\* of several pairs each is wrapped by itself
PairsWrappedOneByOne ==
    (request.op = "html" /\ request.text = "**a**b**c**")
        => request.html = "<strong>a</strong>b<strong>c</strong>"

\* C23 as claimed: the text between the first "**" of a text and the next "**"
\* is in bold markup in the rendering, whatever lies between them; of several
\* pairs each is wrapped by itself; and a text with a single "**", no line
\* break and no list line is rendered as it is.
C23_BoldWrapsAnyPair ==
    /\ (request.op = "html" /\ SecondStars(request.text) # 0)
            => Occurrences(request.html,
                           "<strong>"
                                \o ReplaceNewlines(BetweenStars(request.text), 1)
                                \o "</strong>", 1) >= 1
    /\ PairsWrappedOneByOne
    /\ UnmatchedStarsStay

\* C23 amended: the same, for a pair of "**" with no line break between them.
C23_BoldWrapsPairOnOneLine ==
    /\ (/\ request.op = "html"
        /\ SecondStars(request.text) # 0
        /\ Occurrences(BetweenStars(request.text), "\n", 1) = 0)
            => Occurrences(request.html,
                           "<strong>" \o BetweenStars(request.text) \o "</strong>",
                           1) >= 1
    /\ PairsWrappedOneByOne
    /\ UnmatchedStarsStay

\* a text of two pairs has been rendered, each pair wrapped by itself
C23_Witness ==
    /\ request.op = "html"
    /\ request.text = "**a**b**c**"
    /\ request.html = "<strong>a</strong>b<strong>c</strong>"

\* call k commits in this step, and the current id is not the id of the session
\* that was current when the call was made, without any delete since
CommitsAfterSelect(k) ==
    /\ InFlight(calls[k])
    /\ calls'[k].outcome = "committed"
    /\ ~calls[k].moved
    /\ currentChatId # calls[k].sid

AppendsTo(i) ==
    /\ Len(chatHistory') = Len(chatHistory)
    /\ chatHistory'[i].id = chatHistory[i].id
    /\ Len(chatHistory'[i].messages) > Len(chatHistory[i].messages)
    /\ IsPrefix(chatHistory[i].messages, chatHistory'[i].messages)

\* C25: every step that appends a message to a session (the user's turn or the
\* assistant's commit) does so while that session is the current session.
C25_AppendsOnlyToCurrentSession ==
    [][\A i \in 1..Len(chatHistory) :
        AppendsTo(i) => chatHistory[i].id = currentChatId]_vars

\* the number of messages of the sender among the first n of the list
SentBy(messages, n, sender) ==
    Cardinality({m \in 1..n : messages[m].sender = sender})

\* C26: the assistant message of a call is appended only to the session the
\* call was made on, so in every session every assistant message has its user
\* message before it: no beginning of a message list holds more assistant
\* messages than user messages.
C26_AssistantTurnsFollowTheirUserTurns ==
    \A i \in 1..Len(chatHistory) :
        \A n \in 1..Len(chatHistory[i].messages) :
            SentBy(chatHistory[i].messages, n, "ai")
                <= SentBy(chatHistory[i].messages, n, "user")

\* the collection written to storage in the heap st, and whether the current
\* id of st names one of its sessions
Written(st) == st.localStorage[1]

WrittenHoldsCurrent(st) ==
    \E i \in 1..Len(Written(st)) : Written(st)[i].id = st.currentChatId

\* C27: every write stores a collection that is not empty, and the write a
\* delete makes right after removing the session stores a collection that
\* holds the session the current id names.
C27_WritesSeeWholeCollection ==
    [][phase = "ready"
       => /\ localStorage' # localStorage => localStorage'[1] # <<>>
          /\ IsDeleteStep
                => /\ Written(spliceAndSave(Heap)) # <<>>
                   /\ WrittenHoldsCurrent(spliceAndSave(Heap))]_vars

\* the frame c of a call becomes d along the aggregator's path: it stays in its
\* state, takes its first delta, commits a non-empty buffer from Streaming, or
\* fails on an error of the stream before any commit began
AlongPath(c, d) ==
    \/ d.pc = c.pc
    \/ c.pc = "AwaitingFirstDelta" /\ d.pc = "Streaming"
    \/ /\ c.pc = "Streaming"
       /\ c.fullResponseText # ""
       /\ d.pc = "Idle"
       /\ d.outcome = "committed"
    \/ /\ c.pc \in {"AwaitingFirstDelta", "Streaming"}
       /\ d.pc = "Failed"
       /\ d.outcome = "error"

\* the step appends an assistant message to some session
AppendsAssistantTurn ==
    \E i \in 1..Len(chatHistory) :
        /\ i <= Len(chatHistory')
        /\ Len(chatHistory'[i].messages) = Len(chatHistory[i].messages) + 1
        /\ chatHistory'[i].messages[Len(chatHistory'[i].messages)].sender = "ai"

\* C28: a call starts in AwaitingFirstDelta and moves only along Idle ->
\* AwaitingFirstDelta -> Streaming -> Committing -> Idle: the commit is entered
\* only from Streaming with a non-empty buffer, Failed is entered only from
\* AwaitingFirstDelta or Streaming by an error of the stream, and no step that
\* appends the assistant message ends on the error path.
C28_AggregatorPath ==
    [][\A k \in 1..Len(calls') :
        IF k > Len(calls)
        THEN calls'[k].pc = "AwaitingFirstDelta"
        ELSE /\ AlongPath(calls[k], calls'[k])
             /\ (calls[k].pc # "Failed" /\ calls'[k].pc = "Failed")
                    => ~AppendsAssistantTurn]_vars

\* C29: when the stream of a call closes normally with an empty buffer, no
\* message is appended to any session, nothing is written to storage, and the
\* display entry of the call shows the error rendering.
C29_EmptyCloseShowsError ==
    [][\A k \in 1..Len(calls) :
        (InFlight(calls[k]) /\ calls'[k].outcome = "empty")
            => /\ calls[k].fullResponseText = ""
               /\ chatHistory' = chatHistory
               /\ localStorage' = localStorage
               /\ calls'[k].view = "error"]_vars

\* call k leaves the await in this step
Returns(k) == InFlight(calls[k]) /\ ~InFlight(calls'[k])

\* the backend closes or fails the stream of call k in this step
BackendEnds(k) ==
    \/ calls[k].stream = <<>> /\ calls'[k].outcome \in {"committed", "empty", "throw"}
    \/ calls'[k].outcome = "error"

\* sendMessage, called now with any text, starts a call
SendAccepted ==
    \A text \in UserTexts, stream \in Streams :
        Len(sendMessage(Heap, text, stream).calls) = Len(calls) + 1

\* C30: with a backend that closes or fails every stream, every call in flight
\* returns; a call returns only when the backend closes or fails its stream, and
\* then the submit control is enabled and a sendMessage is accepted, after a
\* failure too; until then the call is in flight with the submit control
\* disabled.
C30_CallsReturnOrHang ==
    /\ [][\A k \in 1..Len(calls) :
            Returns(k) => /\ BackendEnds(k)
                          /\ submitDisabled' = FALSE
                          /\ SendAccepted']_vars
    /\ [](\A k \in 1..Len(calls) : InFlight(calls[k]) => submitDisabled)
    /\ \A k \in 1..MaxCalls :
            (k <= Len(calls) /\ InFlight(calls[k]))
                ~> (k <= Len(calls) /\ ~InFlight(calls[k]))

\* the turns a handle would have to know to carry the messages of a session
TurnsOf(messages) ==
    [m \in 1..Len(messages) |->
        [role |-> IF messages[m].sender = "user" THEN "user" ELSE "model",
         text |-> messages[m].content]]

\* C31: when the first sendMessage of a run opens the backend channel, the
\* turns known to the handle it uses are the messages stored in the current
\* session before the call.
C31_HandleCarriesSessionContext ==
    [][(calls = <<>> /\ Len(calls') = 1)
        => /\ currentChatInstance # <<>>
           /\ currentChatInstance[1].history =
                TurnsOf(chatHistory[calls'[1].currentSessionIndex].messages)]_vars

\* aiMessageElement.innerHTML of the call with frame c while it streams: the
\* loading indicator, or the rendering of the buffer
innerHTML(c) ==
    IF c.view = "content" THEN markdownToHtml(c.fullResponseText) ELSE c.view

\* call k receives a delta in this step
ReceivesDelta(k) ==
    /\ InFlight(calls[k])
    /\ Len(calls'[k].deltas) = Len(calls[k].deltas) + 1

\* C32: before its first delta the display entry of a call shows the
\* placeholder; after each delta it shows the rendering of the concatenation of
\* all the deltas received so far.
C32_DisplayRendersWholeBuffer ==
    [][\A k \in 1..Len(calls) :
        ReceivesDelta(k)
            => /\ calls[k].deltas = <<>> => innerHTML(calls[k]) = "loading"
               /\ innerHTML(calls'[k]) # "loading"
               /\ innerHTML(calls'[k]) =
                    markdownToHtml(ConcatTexts(calls'[k].deltas))]_vars

\* a call has received two deltas and shows both texts
C32_Witness ==
    \E k \in 1..Len(calls) :
        /\ InFlight(calls[k])
        /\ Len(calls[k].deltas) = 2
        /\ calls[k].deltas[2].text = "b"
        /\ innerHTML(calls[k]) = "ab"

\* the categories of the sessions of a collection, in order
Categories(h) == [i \in 1..Len(h) |-> h[i].category]

\* the step is a call of moveChatToCategory, of handleDeleteChat
IsRecategorize == request' # request /\ request'.op = "moveChatToCategory"

IsDelete == request' # request /\ request'.op = "handleDeleteChat"

\* the categories of the collection once the session the delete names, if any,
\* is removed
CategoriesLeft ==
    LET i == FindIndex(chatHistory, request'.id)
    IN  IF i = 0 THEN Categories(chatHistory)
        ELSE Categories(Splice(chatHistory, i))

\* C33: after startup, every step other than a recategorize keeps the category
\* of every session it keeps (a delete removes one session and its category),
\* and every session a step adds is uncategorized.
C33_CategoryChangesOnlyByRecategorize ==
    [][(phase = "ready" /\ ~IsRecategorize)
        => LET kept == IF IsDelete THEN CategoriesLeft
                       ELSE Categories(chatHistory)
           IN  /\ Len(chatHistory') >= Len(kept)
               /\ \A i \in 1..Len(chatHistory') :
                    chatHistory'[i].category =
                        IF i <= Len(kept) THEN kept[i] ELSE "uncategorized"]_vars

\* a session was moved to a category, another session was selected afterwards,
\* and the moved session still holds its category behind a committed answer
C33_Witness ==
    /\ request.op = "loadChat"
    /\ request.n = 2
    /\ \E i \in 1..Len(chatHistory) :
        /\ chatHistory[i].category = "aqidah"
        /\ chatHistory[i].id # currentChatId
        /\ Len(chatHistory[i].messages) = 4
    /\ \E k \in 1..Len(calls) : calls[k].outcome = "committed"

\* texts of two runs of list lines, of items a, b, c, with the line x between
TwoRunTexts == {"- a\nx\n- b", "- a\n- b\nx\n- c", "1. a\nx\n2. b"}

\* the least of the positions a and b that is not 0, 0 when both are
FirstOf(a, b) ==
    IF a = 0 THEN b ELSE IF b = 0 THEN a ELSE IF a < b THEN a ELSE b

\* where the first list wrapper of html opens, and where the first one closes
WrapperOpens(html) == FirstOf(IndexOf(html, "<ul>", 1), IndexOf(html, "<ol>", 1))

WrapperCloses(html) == FirstOf(IndexOf(html, "</ul>", 1), IndexOf(html, "</ol>", 1))

FinalizedEntries ==
    SelectSeq(chatContainer, LAMBDA e : "placeholder" \notin DOMAIN e)

\* C35: after startup the finalized entries of the display are the messages of
\* the current session, in order.
C35_DisplayShowsCurrentSession ==
    phase = "ready"
        => \E i \in 1..Len(chatHistory) :
            /\ i = FindIndex(chatHistory, currentChatId)
            /\ FinalizedEntries = chatHistory[i].messages

\* C36: while the stream of any call is in flight the submit control is
\* disabled.
C36_SubmitDisabledWhileInFlight ==
    (\E k \in 1..Len(calls) : InFlight(calls[k])) => submitDisabled

\* the collection loadHistory() would build from the stored blob on a reload
Reloaded == loadHistory([Blank EXCEPT !.localStorage = localStorage], now + 1).chatHistory

\* C37: after startup, loading the stored blob yields the sessions of the
\* collection in memory, in the same order, with the same ids, titles,
\* categories and messages (sender, content and citations).
C37_SaveLoadRoundTrip ==
    phase = "ready"
        => /\ localStorage # <<>>
           /\ Len(Reloaded) = Len(chatHistory)
           /\ \A i \in 1..Len(chatHistory) :
                /\ Reloaded[i].id = chatHistory[i].id
                /\ Reloaded[i].title = chatHistory[i].title
                /\ Reloaded[i].category = chatHistory[i].category
                /\ Reloaded[i].messages = chatHistory[i].messages

\* a session moved to a category holds a committed answer with citations, and
\* a reload would bring both back
C37_Witness ==
    /\ phase = "ready"
    /\ \E i \in 1..Len(chatHistory) :
        /\ chatHistory[i].category = "aqidah"
        /\ Len(chatHistory[i].messages) = 2
        /\ "sources" \in DOMAIN chatHistory[i].messages[2]
        /\ Reloaded[i].category = "aqidah"
        /\ Reloaded[i].messages[2].sources = <<Citation>>

\* the step is the initial load
IsInitialLoad == phase = "script" /\ phase' = "ready"

\* C38: the initial load of a stored collection that is not empty makes its
\* first session current, creates no session and leaves the storage as it was;
\* the initial load with nothing stored, or with an empty collection stored,
\* leaves exactly one session, which is new, empty and current.
C38_InitialLoad ==
    [][IsInitialLoad
        => IF localStorage # <<>> /\ localStorage[1] # <<>>
           THEN /\ currentChatId' = localStorage[1][1].id
                /\ Len(chatHistory') = Len(localStorage[1])
                /\ \A i \in 1..Len(chatHistory') :
                        chatHistory'[i].id = localStorage[1][i].id
                /\ localStorage' = localStorage
           ELSE /\ Len(chatHistory') = 1
                /\ chatHistory'[1].messages = <<>>
                /\ chatHistory'[1].title = PlaceholderTitle
                /\ currentChatId' = chatHistory'[1].id]_vars

\* the stored collection was loaded: its first session is current although its
\* second session is the newer one
C38_Witness ==
    /\ phase = "ready"
    /\ ops = 0
    /\ calls = <<>>
    /\ Len(chatHistory) = 2
    /\ currentChatId = chatHistory[1].id
    /\ IdKey(chatHistory[2].id) > IdKey(chatHistory[1].id)
    /\ Len(localStorage[1]) = 2

\* C39: the category of every session of the collection is a key of
\* CHAT_CATEGORIES, whatever collection was stored and loaded and whatever
\* sessions were moved.
C39_CategoryInEnumeration ==
    \A i \in 1..Len(chatHistory) : chatHistory[i].category \in ChatCategory

====
